---- MODULE Spec2Model ----
(***************************************************************************)
(* Model of the book registry of main.go: the package-level slice `books`  *)
(* and the five gin handlers getBooks, createBook, bookById, checkoutBook  *)
(* and returnBook.                                                         *)
(*                                                                         *)
(* The slice is modelled as Go represents it: a header (array, len, cap)   *)
(* and a heap of backing arrays.  `&books[i]` is a pointer (array, index)  *)
(* into a backing array, and append writes in place while len < cap and    *)
(* otherwise allocates a larger array and copies.                          *)
(*                                                                         *)
(* Two specifications share the state:                                     *)
(*   Spec      every handler runs atomically (one request at a time);      *)
(*   SpecConc  the handlers of two requests interleave at the granularity  *)
(*             of one access to shared memory per step.                    *)
(***************************************************************************)
EXTENDS Integers, Sequences, FiniteSets, TLC

VARIABLES
    heap,      \* the backing arrays allocated so far (<<>>: collected)
    books,     \* the slice header of the global `books`
    resp,      \* the response written by the last handler that finished
    created,   \* history: the books accepted by createBook, in call order
    touched,   \* history: indices whose Quantity a handler has written
    wk         \* SpecConc: each worker's position and locals

vars == <<heap, books, resp, created, touched, wk>>

\* ------------------------------------------------------------- bounds
\* Spec: at most MaxCreates accepted Creates; Checkout and Return act on
\* quantities within -MaxQuantity..MaxQuantity and on the largest int.
\* SpecConc: at most MaxConcCreates accepted Creates; a decrement reads
\* quantities above -MaxDebt, an increment quantities below MaxConcQuantity.
MaxCreates == 2
MaxQuantity == 3
MaxConcCreates == 1
MaxConcQuantity == 2
MaxDebt == 1

\* ------------------------------------------------------------- data
SeedCap == 4

\* Quantity is a Go int: 32 or 64 bits wide by platform, two's complement,
\* wrapping silently.  The model takes the 32-bit build, whose largest int
\* TLC's integers can hold; the 64-bit build wraps the same way at 2^63 - 1.
IntMax == 2147483647
IntMin == -IntMax - 1

\* book.Quantity += 1 and book.Quantity -= 1 in int arithmetic.
Inc(q) == IF q = IntMax THEN IntMin ELSE q + 1

Dec(q) == IF q = IntMin THEN IntMax ELSE q - 1

Book(id, title, author, quantity) ==
    [ID |-> id, Title |-> title, Author |-> author, Quantity |-> quantity]

ZeroBook == Book("", "", "", 0)

SeedBooks ==
    << Book("1", "Golang pointers", "Mr. Golang", 2),
       Book("2", "Goroutines", "Mr. Goroutine", 20),
       Book("3", "Golang routers", "Mr. Router", 30),
       Book("4", "Golang concurrency", "Mr. Currency", 40) >>

\* Request inputs.  A query is what c.GetQuery("id") / c.Param("id") yields.
Ids == {"1", "5", "9", ""}
NoQuery == [ok |-> FALSE, id |-> ""]
Queries == {[ok |-> TRUE, id |-> i] : i \in Ids} \cup {NoQuery}

NewBooks ==
    { Book("1", "Dup", "A", 1),
      Book("5", "Neg", "B", -1),
      Book("", "NoId", "C", IntMax) }
\* A payload is what c.BindJSON(&newBook) yields: the decoded book, or an error.
Payloads == {[ok |-> TRUE, book |-> b] : b \in NewBooks}
               \cup {[ok |-> FALSE, book |-> ZeroBook]}

Workers == {1, 2}

\* The inputs of the interleaved specification.
ConcIds == {"1", "9"}
ConcQueries == {[ok |-> TRUE, id |-> i] : i \in ConcIds} \cup {NoQuery}
ConcPayloads == {[ok |-> TRUE, book |-> Book("1", "Dup", "A", 1)],
                 [ok |-> FALSE, book |-> ZeroBook]}

\* ------------------------------------------------------------- memory
NilPtr == [arr |-> 0, idx |-> 0]
NilHdr == [arr |-> 0, len |-> 0, cap |-> 0]

\* The elements of slice h, books[0:len], as a sequence (index 1 is books[0]).
View(h, hp) == SubSeq(hp[h.arr], 1, h.len)

Store == View(books, heap)

Deref(hp, p) == hp[p.arr][p.idx]

\* Mutant: the write reaches every record of the array that shares the id.
SetQuantity_all(hp, p, q) ==
    [hp EXCEPT ![p.arr] =
        [i \in DOMAIN @ |-> IF @[i].ID = @[p.idx].ID
                            THEN [@[i] EXCEPT !.Quantity = q] ELSE @[i]]]

SetQuantity(hp, p, q) == [hp EXCEPT ![p.arr][p.idx].Quantity = q]

\* Arrays that nothing refers to any more are collected.
Collect(hp, live) == [a \in 1..Len(hp) |-> IF a \in live THEN hp[a] ELSE <<>>]

\* runtime growslice for a one-element append to a small slice: double.
GrowCap(c) == IF c = 0 THEN 1 ELSE 2 * c

\* Mutant: a book whose id is already stored replaces that record.
AppendBook_upsert(hp, h, nb) ==
    LET dup == {i \in 1..h.len : hp[h.arr][i].ID = nb.ID}
    IN  IF dup # {}
        THEN [heap |-> [hp EXCEPT ![h.arr][CHOOSE i \in dup : TRUE] = nb], hdr |-> h]
        ELSE IF h.len < h.cap
        THEN [heap |-> [hp EXCEPT ![h.arr][h.len + 1] = nb],
              hdr  |-> [h EXCEPT !.len = h.len + 1]]
        ELSE LET arr == [i \in 1..(2 * h.cap) |->
                            IF i <= h.len THEN hp[h.arr][i]
                            ELSE IF i = h.len + 1 THEN nb ELSE ZeroBook]
             IN  [heap |-> Append(hp, arr),
                  hdr  |-> [arr |-> Len(hp) + 1, len |-> h.len + 1, cap |-> 2 * h.cap]]

\* append(h, nb): in place while there is capacity, else a new array.
AppendBook(hp, h, nb) ==
    IF h.len < h.cap
    THEN [heap |-> [hp EXCEPT ![h.arr][h.len + 1] = nb],
          hdr  |-> [h EXCEPT !.len = h.len + 1]]
    ELSE LET newcap == GrowCap(h.cap)
             arr == [i \in 1..newcap |->
                        IF i <= h.len THEN hp[h.arr][i]
                        ELSE IF i = h.len + 1 THEN nb ELSE ZeroBook]
         IN  [heap |-> Append(hp, arr),
              hdr  |-> [arr |-> Len(hp) + 1, len |-> h.len + 1, cap |-> newcap]]

\* getBookById: the index of the first element whose ID is id; 0 is (nil, err).
RECURSIVE ScanFrom(_, _, _)
ScanFrom(s, id, i) ==
    IF i > Len(s) THEN 0
    ELSE IF s[i].ID = id THEN i
    ELSE ScanFrom(s, id, i + 1)

\* Mutant: the scan keeps going and returns the last match.
getBookById_last(s, id) ==
    LET m == {i \in 1..Len(s) : s[i].ID = id}
    IN  IF m = {} THEN 0 ELSE CHOOSE i \in m : \A j \in m : j <= i

\* Mutant: without a match the scan returns the last element instead of nil.
getBookById_orLast(s, id) ==
    IF ScanFrom(s, id, 1) = 0 THEN Len(s) ELSE ScanFrom(s, id, 1)

getBookById(s, id) == ScanFrom(s, id, 1)

\* Mutant: the missing-parameter exit is never taken.
MissingId_never(q) == FALSE

\* `id, ok := c.GetQuery("id"); if !ok { ...; return }`.
MissingId(q) == ~q.ok

\* Mutant: the availability test is `book.Quantity < 0`.
Unavailable_lt(q) == q < 0

\* Mutant: the availability test is `book.Quantity == 0`.
Unavailable_eq(q) == q = 0

\* The availability test of checkoutBook: `book.Quantity <= 0` refuses.
Unavailable(q) == q <= 0

\* ------------------------------------------------------------- responses
\* Lines 87 and 115: checkoutBook's message ends with a space.
MsgMissing(op) ==
    IF op = "checkout" THEN "missing query parameter 'id' "
    ELSE "missing query parameter 'id'"
MsgNotFound == "book not found"
MsgUnavailable == "book is not available at the moment, check in again later"

Resp(op, q, status, msg, body) ==
    [op |-> op, q |-> q, status |-> status, msg |-> msg, body |-> body]

IdleWk == [pc |-> "idle", op |-> "", id |-> "", idx |-> 0, ptr |-> NilPtr,
           seen |-> 0, tmp |-> 0, nb |-> ZeroBook, hdr |-> NilHdr]

Init ==
    /\ heap = << SeedBooks >>
    /\ books = [arr |-> 1, len |-> Len(SeedBooks), cap |-> SeedCap]
    /\ resp = Resp("none", NoQuery, 0, "", <<>>)
    /\ created = <<>>
    /\ touched = {}
    /\ wk = [w \in Workers |-> IdleWk]

\* ------------------------------------------------------------- Spec:
\* each handler runs to completion in one step.
InRange(q) == (-MaxQuantity <= q /\ q <= MaxQuantity) \/ q = IntMax

Finish(hp, h, r, cr, t) ==
    /\ heap' = Collect(hp, {h.arr})
    /\ books' = h
    /\ resp' = r
    /\ created' = cr
    /\ touched' = t
    /\ UNCHANGED wk

getBooks ==
    Finish(heap, books, Resp("list", NoQuery, 200, "", Store), created, touched)

createBook ==
    \E p \in Payloads :
        IF ~p.ok
        THEN Finish(heap, books, Resp("create", NoQuery, 0, "", <<>>),
                    created, touched)
        ELSE /\ Len(created) < MaxCreates
             /\ LET r == AppendBook(heap, books, p.book)
                IN  Finish(r.heap, r.hdr,
                           Resp("create", NoQuery, 201, "", <<p.book>>),
                           Append(created, p.book), touched)

bookById ==
    \E id \in Ids :
        LET q == [ok |-> TRUE, id |-> id]
            i == getBookById(Store, id)
        IN  IF i = 0
            THEN Finish(heap, books, Resp("get", q, 404, "Book not found", <<>>),
                        created, touched)
            ELSE Finish(heap, books,
                        Resp("get", q, 200, "", <<Deref(heap, [arr |-> books.arr, idx |-> i])>>),
                        created, touched)

checkoutBook ==
    \E q \in Queries :
        IF MissingId(q)
        THEN Finish(heap, books, Resp("checkout", q, 400, MsgMissing("checkout"), <<>>),
                    created, touched)
        ELSE LET i == getBookById(Store, q.id)
                 p == [arr |-> books.arr, idx |-> i]
             IN  IF i = 0
                 THEN Finish(heap, books,
                             Resp("checkout", q, 404, MsgNotFound, <<>>),
                             created, touched)
                 ELSE IF Unavailable(Deref(heap, p).Quantity)
                 THEN Finish(heap, books,
                             Resp("checkout", q, 400, MsgUnavailable, <<>>),
                             created, touched)
                 ELSE /\ InRange(Deref(heap, p).Quantity)
                      /\ LET hp == SetQuantity(heap, p, Dec(Deref(heap, p).Quantity))
                         IN  Finish(hp, books,
                                    Resp("checkout", q, 200, "success", <<Deref(hp, p)>>),
                                    created, touched \cup {i})

returnBook ==
    \E q \in Queries :
        IF MissingId(q)
        THEN Finish(heap, books, Resp("return", q, 400, MsgMissing("return"), <<>>),
                    created, touched)
        ELSE LET i == getBookById(Store, q.id)
                 p == [arr |-> books.arr, idx |-> i]
             IN  IF i = 0
                 THEN Finish(heap, books,
                             Resp("return", q, 404, MsgNotFound, <<>>),
                             created, touched)
                 ELSE /\ InRange(Deref(heap, p).Quantity)
                      /\ Deref(heap, p).Quantity # MaxQuantity
                      /\ LET hp == SetQuantity(heap, p, Inc(Deref(heap, p).Quantity))
                         IN  Finish(hp, books,
                                    Resp("return", q, 200, "", <<Deref(hp, p)>>),
                                    created, touched \cup {i})

Next ==
    \/ getBooks
    \/ createBook
    \/ bookById
    \/ checkoutBook
    \/ returnBook

Spec == Init /\ [][Next]_vars

\* ------------------------------------------------------------- SpecConc:
\* the handlers of the requests in flight interleave.  One step is one
\* access to shared memory (a header load or store, a Quantity load or
\* store, the scan of the elements, the marshalling of a response).
Live(h, ws) ==
    {h.arr} \cup {ws[w].ptr.arr : w \in Workers} \cup {ws[w].hdr.arr : w \in Workers}

\* One step of worker w: its new locals nw, the heap, header, response.
Step(w, nw, hp, h, r, cr, t) ==
    LET ws == [wk EXCEPT ![w] = nw]
    IN  /\ wk' = ws
        /\ heap' = Collect(hp, Live(h, ws))
        /\ books' = h
        /\ resp' = r
        /\ created' = cr
        /\ touched' = t

\* getBooks: marshals the slice.
ListStep(w) ==
    /\ wk[w].pc = "idle"
    /\ Step(w, IdleWk, heap, books,
            Resp("list", NoQuery, 200, "", Store), created, touched)

\* createBook, lines 44-48: decode the payload.
CreateStart(w) ==
    /\ wk[w].pc = "idle"
    /\ \E p \in ConcPayloads :
        IF ~p.ok
        THEN Step(w, IdleWk, heap, books,
                  Resp("create", NoQuery, 0, "", <<>>), created, touched)
        ELSE /\ Len(created) < MaxConcCreates
             /\ Step(w, [IdleWk EXCEPT !.pc = "cr_append", !.op = "create",
                                       !.nb = p.book],
                     heap, books, resp, Append(created, p.book), touched)

\* line 50, right-hand side: append(books, newBook) reads the header, writes
\* the element (growing the array when full) and yields the new header.
CreateAppend(w) ==
    /\ wk[w].pc = "cr_append"
    /\ LET r == AppendBook(heap, books, wk[w].nb)
       IN  Step(w, [wk[w] EXCEPT !.pc = "cr_store", !.hdr = r.hdr],
                r.heap, books, resp, created, touched)

\* line 50, assignment: books = <new header>; line 51: the response.
CreateStore(w) ==
    /\ wk[w].pc = "cr_store"
    /\ Step(w, IdleWk, heap, wk[w].hdr,
            Resp("create", NoQuery, 201, "", <<wk[w].nb>>), created, touched)

\* bookById, line 56.
GetStart(w) ==
    /\ wk[w].pc = "idle"
    /\ \E id \in ConcIds :
        Step(w, [IdleWk EXCEPT !.pc = "scan", !.op = "get", !.id = id],
             heap, books, resp, created, touched)

\* checkoutBook / returnBook: c.GetQuery("id") and the missing-parameter exit.
MutStart(w, op) ==
    /\ wk[w].pc = "idle"
    /\ \E q \in ConcQueries :
        IF MissingId(q)
        THEN Step(w, IdleWk, heap, books, Resp(op, q, 400, MsgMissing(op), <<>>),
                  created, touched)
        ELSE Step(w, [IdleWk EXCEPT !.pc = "scan", !.op = op, !.id = q.id],
                  heap, books, resp, created, touched)

CheckoutStart(w) == MutStart(w, "checkout")

ReturnStart(w) == MutStart(w, "return")

\* getBookById, lines 72-73: range over a copy of the header; no match is
\* (nil, err), which every caller turns into its 404.
Scan(w) ==
    /\ wk[w].pc = "scan"
    /\ LET i == getBookById(Store, wk[w].id)
           q == [ok |-> TRUE, id |-> wk[w].id]
       IN  IF i = 0
           THEN Step(w, IdleWk, heap, books,
                     Resp(wk[w].op, q, 404,
                          IF wk[w].op = "get" THEN "Book not found" ELSE MsgNotFound,
                          <<>>),
                     created, touched)
           ELSE Step(w, [wk[w] EXCEPT !.pc = "addr", !.idx = i],
                     heap, books, resp, created, touched)

\* getBookById, line 74: &books[i] reads the header again (bounds-checked:
\* an index past len panics, which gin's recovery answers with 500).
Addr(w) ==
    /\ wk[w].pc = "addr"
    /\ IF wk[w].idx > books.len
       THEN Step(w, IdleWk, heap, books,
                 Resp(wk[w].op, [ok |-> TRUE, id |-> wk[w].id], 500, "panic", <<>>),
                 created, touched)
       ELSE Step(w, [wk[w] EXCEPT
                        !.pc = CASE wk[w].op = "get" -> "get_resp"
                                 [] wk[w].op = "checkout" -> "co_check"
                                 [] OTHER -> "ret_load",
                        !.ptr = [arr |-> books.arr, idx |-> wk[w].idx]],
                 heap, books, resp, created, touched)

\* bookById, line 65: marshals *book.
GetResp(w) ==
    /\ wk[w].pc = "get_resp"
    /\ Step(w, IdleWk, heap, books,
            Resp("get", [ok |-> TRUE, id |-> wk[w].id], 200, "",
                 <<Deref(heap, wk[w].ptr)>>),
            created, touched)

\* Mutant: the handler goes on to the decrement whatever the check read.
CheckoutCheck_skip(w) ==
    /\ wk[w].pc = "co_check"
    /\ Step(w, [wk[w] EXCEPT !.pc = "co_load",
                             !.seen = Deref(heap, wk[w].ptr).Quantity],
            heap, books, resp, created, touched)

\* checkoutBook, line 98: the availability check reads book.Quantity.
CheckoutCheck(w) ==
    /\ wk[w].pc = "co_check"
    /\ LET q == Deref(heap, wk[w].ptr).Quantity
       IN  IF Unavailable(q)
           THEN Step(w, IdleWk, heap, books,
                     Resp("checkout", [ok |-> TRUE, id |-> wk[w].id], 400,
                          MsgUnavailable, <<>>),
                     created, touched)
           ELSE Step(w, [wk[w] EXCEPT !.pc = "co_load", !.seen = q],
                     heap, books, resp, created, touched)

\* line 103, book.Quantity -= 1: the load ...
CheckoutLoad(w) ==
    /\ wk[w].pc = "co_load"
    /\ Deref(heap, wk[w].ptr).Quantity > -MaxDebt
    /\ Step(w, [wk[w] EXCEPT !.pc = "co_store",
                             !.tmp = Deref(heap, wk[w].ptr).Quantity],
            heap, books, resp, created, touched)

\* ... and the store.
CheckoutStore(w) ==
    /\ wk[w].pc = "co_store"
    /\ Step(w, [wk[w] EXCEPT !.pc = "co_resp"],
            SetQuantity(heap, wk[w].ptr, Dec(wk[w].tmp)), books, resp, created,
            touched \cup {wk[w].ptr.idx})

\* line 105: marshals *book.
CheckoutResp(w) ==
    /\ wk[w].pc = "co_resp"
    /\ Step(w, IdleWk, heap, books,
            Resp("checkout", [ok |-> TRUE, id |-> wk[w].id], 200, "success",
                 <<Deref(heap, wk[w].ptr)>>),
            created, touched)

\* returnBook, line 126, book.Quantity += 1: the load ...
ReturnLoad(w) ==
    /\ wk[w].pc = "ret_load"
    /\ Deref(heap, wk[w].ptr).Quantity < MaxConcQuantity
    /\ Step(w, [wk[w] EXCEPT !.pc = "ret_store",
                             !.tmp = Deref(heap, wk[w].ptr).Quantity],
            heap, books, resp, created, touched)

\* ... and the store.
ReturnStore(w) ==
    /\ wk[w].pc = "ret_store"
    /\ Step(w, [wk[w] EXCEPT !.pc = "ret_resp"],
            SetQuantity(heap, wk[w].ptr, Inc(wk[w].tmp)), books, resp, created,
            touched \cup {wk[w].ptr.idx})

\* line 127: marshals *book.
ReturnResp(w) ==
    /\ wk[w].pc = "ret_resp"
    /\ Step(w, IdleWk, heap, books,
            Resp("return", [ok |-> TRUE, id |-> wk[w].id], 200, "",
                 <<Deref(heap, wk[w].ptr)>>),
            created, touched)

NextConc ==
    \E w \in Workers :
        \/ ListStep(w)
        \/ CreateStart(w)
        \/ CreateAppend(w)
        \/ CreateStore(w)
        \/ GetStart(w)
        \/ CheckoutStart(w)
        \/ ReturnStart(w)
        \/ Scan(w)
        \/ Addr(w)
        \/ GetResp(w)
        \/ CheckoutCheck(w)
        \/ CheckoutLoad(w)
        \/ CheckoutStore(w)
        \/ CheckoutResp(w)
        \/ ReturnLoad(w)
        \/ ReturnStore(w)
        \/ ReturnResp(w)

SpecConc == Init /\ [][NextConc]_vars

\* ============================================================= claims
\* Vocabulary of the claims, stated independently of the scan above.
Has(s, id) == \E i \in 1..Len(s) : s[i].ID = id

\* The lowest index whose record has this id (for an id that is present).
First(s, id) ==
    CHOOSE i \in 1..Len(s) :
        /\ s[i].ID = id
        /\ \A j \in 1..(i - 1) : s[j].ID # id

SameIdentity(a, b) == a.ID = b.ID /\ a.Title = b.Title /\ a.Author = b.Author

\* What entered the store: the seeds, then the accepted books in call order.
Origin == SeedBooks \o created

IsMutation(r) == r.op \in {"checkout", "return"}

\* C1: Checkout(id) on a present record, handlers run atomically: when the
\* first record with that id has quantity q > 0 the call answers 200 and
\* that record's quantity becomes q - 1; when q = 0 it answers 400 "not
\* available" and the quantity stays q.
C1_Checkout ==
    [][ (resp'.op = "checkout" /\ resp'.q.ok /\ Has(Store, resp'.q.id)) =>
          LET i == First(Store, resp'.q.id)
              q == Store[i].Quantity
          IN  /\ q > 0 => /\ resp'.status = 200
                          /\ Store'[i].Quantity = q - 1
                          /\ resp'.body = <<Store'[i]>>
              /\ q = 0 => /\ resp'.status = 400
                          /\ resp'.msg = MsgUnavailable
                          /\ Store'[i].Quantity = q ]_vars

\* C1 witness: a checkout of seed "1" refused at quantity 0 (after two
\* checkouts that succeeded from quantity 2).
C1_Witness ==
    /\ resp.op = "checkout"
    /\ resp.q = [ok |-> TRUE, id |-> "1"]
    /\ resp.status = 400
    /\ resp.msg = MsgUnavailable
    /\ Store[1].Quantity = 0
    /\ 1 \in touched

\* C2 as stated: with handlers run atomically, every record in the store
\* has quantity >= 0 in every reachable state.
C2_Original == \A i \in 1..Len(Store) : Store[i].Quantity >= 0

\* C2 as amended: with handlers run atomically, a step lowers an existing
\* record's quantity only as a Checkout of a quantity q > 0, to q - 1 >= 0,
\* or as the wrap-around of a Return at the largest int.  So no Checkout
\* makes a quantity negative, and a quantity is negative only where Create
\* stored a negative quantity verbatim or a Return wrapped around.
C2_Amended ==
    [][ \A i \in 1..Len(Store) :
          Store'[i].Quantity < Store[i].Quantity =>
             \/ /\ resp'.op = "checkout" /\ resp'.status = 200
                /\ Store[i].Quantity > 0
                /\ Store'[i].Quantity >= 0
             \/ /\ resp'.op = "return" /\ resp'.status = 200
                /\ Store[i].Quantity = IntMax ]_vars

\* C2 witness: a checkout refused at quantity 0 while the store also holds
\* a record that was created with a negative quantity.
C2_Witness ==
    /\ resp.op = "checkout"
    /\ resp.status = 400
    /\ resp.msg = MsgUnavailable
    /\ Store[1].Quantity = 0
    /\ \E i \in 1..Len(Store) : Store[i].Quantity < 0

\* C4: List returns the four seed records in their initial order followed by
\* the created records in the order of the Create calls, duplicates of an
\* existing id kept as separate entries; every record no Checkout or Return
\* has written (all of them, after Create calls only) is verbatim.
C4_List ==
    resp.op = "list" =>
        /\ resp.status = 200
        /\ Len(resp.body) = Len(SeedBooks) + Len(created)
        /\ \A i \in 1..Len(resp.body) :
              /\ SameIdentity(resp.body[i], Origin[i])
              /\ i \notin touched => resp.body[i] = Origin[i]

\* C4 witness: a List after two Creates and nothing else, the first Create
\* a duplicate of seed id "1".
C4_Witness ==
    /\ resp.op = "list"
    /\ touched = {}
    /\ Len(created) = 2
    /\ created[1].ID = "1"
    /\ Len(resp.body) = 6
    /\ resp.body[1].Quantity = 2
    /\ resp.body[5] = created[1]

\* C5: Return(id) on a present record, handlers run atomically, answers 200
\* and sets the quantity of the first record with that id to q + 1, for
\* every current q (zero, positive or negative), with no upper bound.
C5_Return ==
    [][ (resp'.op = "return" /\ resp'.q.ok /\ Has(Store, resp'.q.id)) =>
          LET i == First(Store, resp'.q.id)
          IN  /\ resp'.status = 200
              /\ Store'[i].Quantity > Store[i].Quantity
              /\ Store'[i].Quantity - Store[i].Quantity = 1
              /\ resp'.body = <<Store'[i]>> ]_vars

\* C6: Checkout or Return whose id names no record answers 404 and leaves
\* the whole store unchanged.
C6_NotFound ==
    [][ (IsMutation(resp') /\ resp'.q.ok /\ ~Has(Store, resp'.q.id)) =>
          /\ resp'.status = 404
          /\ resp'.msg = MsgNotFound
          /\ Store' = Store
          /\ books' = books ]_vars

\* C6 witness: a Checkout of an absent id answered 404 while the store
\* holds created records.
C6_Witness ==
    /\ resp.op = "checkout"
    /\ resp.status = 404
    /\ resp.q.ok
    /\ ~Has(Store, resp.q.id)
    /\ Len(Store) > Len(SeedBooks)

\* C7: Checkout or Return with no id query parameter answers 400 "missing
\* query parameter" and leaves the whole store unchanged, whatever the store
\* contains (also a record whose id is the empty string).
C7_Missing ==
    [][ (IsMutation(resp') /\ ~resp'.q.ok) =>
          /\ resp'.status = 400
          /\ resp'.msg = MsgMissing(resp'.op)
          /\ Store' = Store
          /\ books' = books ]_vars

\* C7 witness: a Return without id answered 400 while the store holds a
\* record whose id is the empty string.
C7_Witness ==
    /\ resp.op = "return"
    /\ ~resp.q.ok
    /\ resp.status = 400
    /\ resp.msg = MsgMissing("return")
    /\ Has(Store, "")

\* C8: GetByID(id) answers 404 exactly when no record has that id; otherwise
\* it answers 200 with the record of lowest index whose id is id, also when
\* several records share the id; the store is unchanged.
C8_GetByID ==
    [][ resp'.op = "get" =>
          /\ resp'.status = 404 <=> ~Has(Store, resp'.q.id)
          /\ Has(Store, resp'.q.id) =>
                /\ resp'.status = 200
                /\ resp'.body = <<Store[First(Store, resp'.q.id)]>>
          /\ Store' = Store
          /\ books' = books ]_vars

\* C8 witness: GetByID("1") answered with the seed while a created record
\* shares the id.
C8_Witness ==
    /\ resp.op = "get"
    /\ resp.status = 200
    /\ resp.q.id = "1"
    /\ resp.body[1].Title = "Golang pointers"
    /\ \E j \in 2..Len(Store) : Store[j].ID = "1" /\ Store[j] # resp.body[1]

\* C10: a successful Checkout or Return changes only the quantity of the
\* first record with the given id (later records with the same id
\* included among the unchanged); over every step the store never shrinks
\* and an existing record's id, title and author never change.
C10_Frame ==
    [][ /\ Len(Store') >= Len(Store)
        /\ \A i \in 1..Len(Store) : SameIdentity(Store'[i], Store[i])
        /\ (IsMutation(resp') /\ resp'.status = 200) =>
              /\ Len(Store') = Len(Store)
              /\ \A i \in 1..Len(Store) :
                    i # First(Store, resp'.q.id) => Store'[i] = Store[i] ]_vars

\* C10 witness: a successful Checkout of id "1" while a later record shares
\* the id and keeps its quantity.
C10_Witness ==
    /\ resp.op = "checkout"
    /\ resp.status = 200
    /\ resp.q.id = "1"
    /\ \E j \in 2..Len(Store) : Store[j].ID = "1" /\ Store[j] = Origin[j]

\* C3: with the availability check and the decrement separate steps, two
\* Checkouts that both pass the check at quantity 1 can leave the record
\* below zero (C3_Witness reaches that interleaving).  And a record's
\* quantity goes from >= 0 to < 0 in no other way than by a racing store:
\* the decrement of a Checkout that passed the check (it read a quantity
\* > 0) and then read a quantity <= 0, or the increment of a Return writing
\* back a stale negative quantity it read before another handler's write
\* (or wrapping around at the largest int).  The books created in SpecConc
\* have a quantity >= 0, so no append writes a negative quantity.
C3_Race ==
    [][ \A a \in 1..Len(heap) : \A i \in 1..Len(heap[a]) :
          (/\ Len(heap'[a]) >= i
           /\ heap[a][i].Quantity >= 0
           /\ heap'[a][i].Quantity < 0)
          => \E w \in Workers :
                /\ wk[w].ptr = [arr |-> a, idx |-> i]
                /\ \/ /\ wk[w].pc = "co_store" /\ wk'[w].pc = "co_resp"
                      /\ wk[w].seen > 0
                      /\ wk[w].tmp <= 0
                   \/ /\ wk[w].pc = "ret_store" /\ wk'[w].pc = "ret_resp"
                      /\ \/ wk[w].tmp < -1 /\ wk[w].tmp # heap[a][i].Quantity
                         \/ wk[w].tmp = IntMax ]_vars

\* C3 witness: both Checkouts of seed "1" passed the check at quantity 1
\* before either decremented, both have decremented, and the store's record
\* is below zero.
C3_Witness ==
    /\ \A w \in Workers :
          /\ wk[w].op = "checkout"
          /\ wk[w].pc = "co_resp"
          /\ wk[w].id = "1"
          /\ wk[w].seen = 1
          /\ wk[w].ptr = [arr |-> books.arr, idx |-> 1]
    /\ {wk[w].tmp : w \in Workers} = {0, 1}
    /\ Store[1].Quantity < 0

\* C9: the write of a successful Checkout or Return is visible in the
\* store: right after the handler's Quantity store, the store's record at
\* the index the lookup found holds the value written, also when a Create
\* ran between the lookup and the write.
C9_Visible ==
    [][ \A w \in Workers :
          (wk[w].pc \in {"co_store", "ret_store"} /\ wk'[w].pc \in {"co_resp", "ret_resp"})
          => Store'[wk[w].idx].Quantity = Deref(heap', wk[w].ptr).Quantity ]_vars

====
